---------------------------- MODULE Spec2Model ----------------------------
(***************************************************************************)
(* RememorySet (src/src/rememory/sharedSet.py): a set whose storage is a   *)
(* named shared-memory segment, guarded by a cross-process NamedLock.      *)
(*                                                                         *)
(* The segment provider is multiprocessing.shared_memory with its POSIX    *)
(* behaviour: a name maps to at most one segment; unlink removes the name  *)
(* and leaves the bytes alive for every process that still maps them;      *)
(* create fails with FileExistsError when the name is taken, attach fails  *)
(* with FileNotFoundError when it is absent; a closed SharedMemory object  *)
(* keeps its name and size and loses its buffer.                           *)
(*                                                                         *)
(* The codec is pickle, reduced to the opcodes a set of small integers     *)
(* uses: PROTO EMPTY_SET [MARK item* ADDITEMS] STOP.  As pickle.loads does,*)
(* Loads stops at STOP and ignores what follows it, and fails on a         *)
(* truncated or foreign stream.                                            *)
(***************************************************************************)
EXTENDS Integers, Sequences, FiniteSets, TLC

\* ------------------------------------------------------------ bounds ----
\* Elements are 1..MaxElem; a constructor's size argument is InitialCapacity;
\* a process starts at most MaxOps operations.
MaxElem == 2
InitialCapacity == 4
MaxOps == 3

Elems == 1..MaxElem
Procs == {"P1", "P2"}
Names == {"A", "B"}
NoProc == "none"
NoSeg == 0
\* One segment per handle and one per name can be alive at once.
SegIds == 1..(Cardinality(Procs) * Cardinality(Names) + Cardinality(Names))

\* ------------------------------------------------------------- codec ----
PROTO == 128
EMPTY_SET == 143
MARK == 40
ADDITEMS == 144
STOP == 46
PAD == 0
\* The opcode of None: a pickle that is not the pickle of a set.  Only a
\* foreign writer stores it; RememorySet's own stores never do.
NONE == 78

Max(a, b) == IF a >= b THEN a ELSE b

RECURSIVE SetToSeq(_)
\* The items of a set in ascending order (the order pickle writes small ints).
SetToSeq(S) ==
  IF S = {} THEN <<>>
  ELSE LET m == CHOOSE x \in S : \A y \in S : x <= y
       IN  <<m>> \o SetToSeq(S \ {m})

\* pickle.dumps(data)
Encode(S) ==
  <<PROTO, EMPTY_SET>>
    \o (IF S = {} THEN <<>> ELSE <<MARK>> \o SetToSeq(S) \o <<ADDITEMS>>)
    \o <<STOP>>

RECURSIVE RStrip(_)
\* bytes.rstrip(b"\x00")
RStrip(b) ==
  IF b = <<>> THEN <<>>
  ELSE IF b[Len(b)] = PAD THEN RStrip(SubSeq(b, 1, Len(b) - 1))
  ELSE b

RECURSIVE ItemsEnd(_, _)
\* The index of the first byte at or after i that is not an item.
ItemsEnd(raw, i) ==
  IF i <= Len(raw) /\ raw[i] \in Elems THEN ItemsEnd(raw, i + 1) ELSE i

\* pickle.loads(raw): [ok, set, val]; ok is FALSE where pickle raises, set
\* is FALSE where the object decoded is not a set (None), val the set.
Loads(raw) ==
  IF Len(raw) < 3 \/ raw[1] # PROTO
    THEN [ok |-> FALSE, set |-> FALSE, val |-> {}]
  ELSE IF raw[2] = NONE
    THEN [ok |-> raw[3] = STOP, set |-> FALSE, val |-> {}]
  ELSE IF raw[2] # EMPTY_SET THEN [ok |-> FALSE, set |-> FALSE, val |-> {}]
  ELSE IF raw[3] = STOP THEN [ok |-> TRUE, set |-> TRUE, val |-> {}]
  ELSE IF raw[3] # MARK THEN [ok |-> FALSE, set |-> FALSE, val |-> {}]
  ELSE LET e == ItemsEnd(raw, 4)
       IN  IF e + 1 <= Len(raw) /\ raw[e] = ADDITEMS /\ raw[e + 1] = STOP
             THEN [ok |-> TRUE, set |-> TRUE,
                   val |-> {raw[k] : k \in 4..(e - 1)}]
             ELSE [ok |-> FALSE, set |-> FALSE, val |-> {}]

\* _readData on an open handle: strip the padding, decode, degrade to set().
ReadBuf(buf) ==
  LET raw == RStrip(buf)
  IN  IF raw = <<>> THEN {}
      ELSE IF Loads(raw).ok THEN Loads(raw).val ELSE {}

\* _readData returns what pickle.loads returned when it did not raise, a set
\* or not (lines 53-54): Foreign holds where that object is not a set, and
\* ReadBuf is then not what the caller gets.
Foreign(buf) ==
  LET raw == RStrip(buf)
  IN  raw # <<>> /\ Loads(raw).ok /\ ~Loads(raw).set

Zeros(n) == [i \in 1..n |-> PAD]

\* buf[:len(encoded)] = encoded
PutPayload(buf, enc) ==
  [i \in 1..Len(buf) |-> IF i <= Len(enc) THEN enc[i] ELSE buf[i]]

\* A store that writes no padding.
PutNoPad(buf, enc) == buf

\* buf[len(encoded):] = b"\x00" * (size - len(encoded))
PutPad(buf, enc) ==
  [i \in 1..Len(buf) |-> IF i <= Len(enc) THEN buf[i] ELSE PAD]

\* ------------------------------------------------------------- state ----
VARIABLES
  registry,   \* the OS namespace: name -> segment id, NoSeg when absent
  segs,       \* segment id -> [size, buf, role]
  handle,     \* process -> name -> the RememorySet object's _shm
  lock,       \* NamedLock: name -> holder, NoProc when free
  pc,         \* process -> the operation in progress and its locals
  ops,        \* process -> operations started so far
  obs,        \* the operation that completed last and what it returned
  committed   \* name -> the set values some store has fully written

vars == <<registry, segs, handle, lock, pc, ops, obs, committed>>

\* A segment id not in use.  role records how a segment left the namespace:
\* "live" (registered), "superseded" (unlinked by a growth), "unlinked"
\* (unlinked by unlink()), and by the process that removed its name.
FreeSeg == [size |-> 0, buf |-> <<>>, role |-> "free", by |-> NoProc]
NoMark == [role |-> "none", by |-> NoProc]
Mark(i) == [role |-> segs[i].role, by |-> segs[i].by]
NoHandle == [st |-> "none", shm |-> NoSeg, size |-> 0]
IdlePc ==
  [stage |-> "idle", op |-> "none", n |-> "A", m |-> "A", arg |-> 0, data |-> {},
   out |-> {}, after |-> "none"]

\* What an operation returned: res is "ok" or the exception raised; arg the
\* element passed (for the constructor, 1 when it created the segment); val
\* the set returned (for the constructor, the set the new handle reads);
\* truth the boolean returned; seen the mark of the segment the operation
\* read or wrote; torn whether a store into that segment was between its
\* payload and its padding when the operation read it; prev the operation
\* that had completed last when this one started, when that one returned
\* normally on this name and no other operation was in progress.
NoOutcome ==
  [p |-> NoProc, op |-> "none", n |-> "A", arg |-> 0, res |-> "none",
   val |-> {}, truth |-> FALSE, seen |-> NoMark, torn |-> FALSE,
   prev |-> "none"]

After(p, n) ==
  IF obs.res = "ok" /\ obs.n = n /\ \A q \in Procs \ {p} : pc[q].stage = "idle"
    THEN obs.op
    ELSE "none"

Outcome(p, op, n, arg, res, val, truth, seen, torn) ==
  [p |-> p, op |-> op, n |-> n, arg |-> arg, res |-> res, val |-> val,
   truth |-> truth, seen |-> seen, torn |-> torn,
   prev |-> IF pc[p].stage = "idle" THEN After(p, n) ELSE pc[p].after]

Raised(p, op, n, arg, err) ==
  Outcome(p, op, n, arg, err, {}, FALSE, NoMark, FALSE)

Idle(p) == pc[p].stage = "idle"

\* A process may start another operation.
CanStart(p) == Idle(p) /\ ops[p] < MaxOps

Started(p) == [ops EXCEPT ![p] = @ + 1]

\* A segment lives while its name is registered or a process maps it.
Referenced(i, R, H) ==
  \/ \E n \in Names : R[n] = i
  \/ \E p \in Procs, n \in Names : H[p][n].st = "open" /\ H[p][n].shm = i

Collect(S, R, H) ==
  [i \in SegIds |-> IF Referenced(i, R, H) THEN S[i] ELSE FreeSeg]

FreeId ==
  CHOOSE i \in SegIds :
    segs[i].role = "free" /\ \A j \in SegIds : segs[j].role = "free" => i <= j

\* shared_memory.SharedMemory(name, create=True, size): zero-filled.
NewSegment(size) ==
  [size |-> size, buf |-> Zeros(size), role |-> "live", by |-> NoProc]

Closed(h) == [st |-> "closed", shm |-> NoSeg, size |-> h.size]
Opened(i, size) == [st |-> "open", shm |-> i, size |-> size]

\* _writeData line 62: grow when the encoding exceeds the handle's size.
WriteStage(data, size) ==
  IF Len(Encode(data)) > size THEN "grow_unlink" ELSE "payload"

\* _writeData line 63
NewSize(data, size) == Max(Len(Encode(data)), size * 2)

\* A with-block whose exit leaves the lock held.
Kept(p) == lock

\* The with-block's exit: the operation's own lock is released; the
\* constructor's _writeData runs before any lock exists.
Released(p) ==
  IF pc[p].op = "init" THEN lock ELSE [lock EXCEPT ![pc[p].n] = NoProc]

\* A store into segment i has written its payload and not yet its padding.
Torn(i) ==
  \E q \in Procs : pc[q].stage = "pad" /\ handle[q][pc[q].n].shm = i

Init ==
  /\ registry = [n \in Names |-> NoSeg]
  /\ segs = [i \in SegIds |-> FreeSeg]
  /\ handle = [p \in Procs |-> [n \in Names |-> NoHandle]]
  /\ lock = [n \in Names |-> NoProc]
  /\ pc = [p \in Procs |-> IdlePc]
  /\ ops = [p \in Procs |-> 0]
  /\ obs = NoOutcome
  /\ committed = [n \in Names |-> {}]

\* ------------------------------------------------------- constructor ----
\* __init__(name, size): self._size = size (line 33); line 38: attach;
\* FileNotFoundError leads to the create branch.
Construct(p, n, size) ==
  /\ CanStart(p)
  /\ handle[p][n].st # "open"
  /\ ops' = Started(p)
  /\ IF registry[n] # NoSeg
       THEN /\ handle' = [handle EXCEPT
                 ![p][n] = Opened(registry[n], segs[registry[n]].size)]
            /\ obs' = Outcome(p, "init", n, 0, "ok",
                              ReadBuf(segs[registry[n]].buf), FALSE,
                              Mark(registry[n]), Torn(registry[n]))
            /\ pc' = pc
       ELSE /\ pc' = [pc EXCEPT ![p] =
                 [stage |-> "create", op |-> "init", n |-> n, m |-> n,
                  arg |-> 0, data |-> {}, out |-> {}, after |-> After(p, n)]]
            /\ handle' = [handle EXCEPT
                 ![p][n] = [st |-> "none", shm |-> NoSeg, size |-> size]]
            /\ obs' = obs
  /\ UNCHANGED <<registry, segs, lock, committed>>

\* The constructor called with the initial capacity as its size.
Attach(p, n) == Construct(p, n, InitialCapacity)

\* __init__ line 40: create; FileExistsError is not caught.  Line 41's
\* _writeData(set()) follows in the write stages, with no lock held.
Create(p) ==
  /\ pc[p].stage = "create"
  /\ LET n == pc[p].n
     IN IF registry[n] # NoSeg
          THEN /\ pc' = [pc EXCEPT ![p] = IdlePc]
               /\ obs' = Raised(p, "init", n, 0, "FileExistsError")
               /\ handle' = [handle EXCEPT ![p][n] = NoHandle]
               /\ UNCHANGED <<registry, segs>>
          ELSE /\ registry' = [registry EXCEPT ![n] = FreeId]
               /\ segs' = [segs EXCEPT
                    ![FreeId] = NewSegment(handle[p][n].size)]
               /\ handle' = [handle EXCEPT
                    ![p][n] = Opened(FreeId, handle[p][n].size)]
               /\ pc' = [pc EXCEPT
                    ![p].stage = WriteStage({}, handle[p][n].size),
                    ![p].arg = 1]
               /\ obs' = obs
  /\ UNCHANGED <<lock, ops, committed>>

\* -------------------------------------------------------- _writeData ----
\* Lines 64-65: close the old mapping, unlink the name (whatever segment
\* holds it now); FileNotFoundError leaves the handle closed.
GrowUnlink(p) ==
  /\ pc[p].stage = "grow_unlink"
  /\ LET n == pc[p].n
         H == [handle EXCEPT ![p][n] = Closed(handle[p][n])]
     IN IF registry[n] # NoSeg
          THEN LET R == [registry EXCEPT ![n] = NoSeg]
                   S == [segs EXCEPT ![registry[n]].role = "superseded",
                                     ![registry[n]].by = p]
               IN /\ registry' = R
                  /\ handle' = H
                  /\ segs' = Collect(S, R, H)
                  /\ pc' = [pc EXCEPT ![p].stage = "grow_create"]
                  /\ UNCHANGED <<lock, obs>>
          ELSE /\ handle' = H
               /\ segs' = Collect(segs, registry, H)
               /\ lock' = Released(p)
               /\ pc' = [pc EXCEPT ![p] = IdlePc]
               /\ obs' = Raised(p, pc[p].op, n, pc[p].arg, "FileNotFoundError")
               /\ registry' = registry
  /\ UNCHANGED <<ops, committed>>

\* Lines 66-68: create the larger segment under the same name.
GrowCreate(p) ==
  /\ pc[p].stage = "grow_create"
  /\ LET n == pc[p].n
         size == NewSize(pc[p].data, handle[p][n].size)
     IN IF registry[n] # NoSeg
          THEN /\ lock' = Released(p)
               /\ pc' = [pc EXCEPT ![p] = IdlePc]
               /\ obs' = Raised(p, pc[p].op, n, pc[p].arg, "FileExistsError")
               /\ UNCHANGED <<registry, segs, handle>>
          ELSE /\ registry' = [registry EXCEPT ![n] = FreeId]
               /\ segs' = [segs EXCEPT ![FreeId] = NewSegment(size)]
               /\ handle' = [handle EXCEPT ![p][n] = Opened(FreeId, size)]
               /\ pc' = [pc EXCEPT ![p].stage = "payload"]
               /\ UNCHANGED <<lock, obs>>
  /\ UNCHANGED <<ops, committed>>

\* Line 69: the payload bytes.
WritePayload(p) ==
  /\ pc[p].stage = "payload"
  /\ LET i == handle[p][pc[p].n].shm
     IN segs' = [segs EXCEPT
          ![i].buf = PutPayload(segs[i].buf, Encode(pc[p].data))]
  /\ pc' = [pc EXCEPT ![p].stage = "pad"]
  /\ UNCHANGED <<registry, handle, lock, ops, obs, committed>>

\* Line 70: the zero padding; then the operation returns.
WritePad(p) ==
  /\ pc[p].stage = "pad"
  /\ LET n == pc[p].n
         i == handle[p][n].shm
         buf == PutPad(segs[i].buf, Encode(pc[p].data))
     IN /\ segs' = [segs EXCEPT ![i].buf = buf]
        /\ obs' = Outcome(p, pc[p].op, n, pc[p].arg, "ok",
                          IF pc[p].op = "init" THEN ReadBuf(buf) ELSE {},
                          FALSE, Mark(i), FALSE)
        /\ committed' = [committed EXCEPT ![n] = @ \cup {pc[p].data}]
  /\ lock' = Released(p)
  /\ pc' = [pc EXCEPT ![p] = IdlePc]
  /\ UNCHANGED <<registry, handle, ops>>

\* ------------------------------------------------ mutating operations ----
\* data.add(item) (line 78), data.discard(item) (line 92)
Apply(op, x, d) == IF op = "add" THEN d \cup {x} ELSE d \ {x}

\* The head of a read-modify-write method: with self._lock, _readData,
\* the set transformation; _writeData follows in the write stages.  A closed
\* handle's buf is None and _readData raises TypeError inside the with-block;
\* an object that is not a set has no add or discard (AttributeError).
Mutate(p, n, op, x) ==
  /\ CanStart(p)
  /\ handle[p][n].st # "none"
  /\ lock[n] = NoProc
  /\ ops' = Started(p)
  /\ IF handle[p][n].st = "closed"
       THEN /\ obs' = Raised(p, op, n, x, "TypeError")
            /\ UNCHANGED <<lock, pc>>
       ELSE IF Foreign(segs[handle[p][n].shm].buf)
       THEN /\ obs' = Raised(p, op, n, x, "AttributeError")
            /\ UNCHANGED <<lock, pc>>
       ELSE LET data == Apply(op, x, ReadBuf(segs[handle[p][n].shm].buf))
            IN /\ lock' = [lock EXCEPT ![n] = p]
               /\ pc' = [pc EXCEPT ![p] =
                    [stage |-> WriteStage(data, handle[p][n].size), op |-> op,
                     n |-> n, m |-> n, arg |-> x, data |-> data, out |-> {},
                     after |-> After(p, n)]]
               /\ obs' = obs
  /\ UNCHANGED <<registry, segs, handle, committed>>

\* add, lines 74-79
AddStart(p, n, x) == Mutate(p, n, "add", x)

\* discard, lines 88-93
DiscardStart(p, n, x) == Mutate(p, n, "discard", x)

\* The locals of a method that has taken the lock and read snapshot S.
Entered(p, n, op, x, S, stage, data) ==
  [stage |-> stage, op |-> op, n |-> n, m |-> n, arg |-> x, data |-> data,
   out |-> S, after |-> After(p, n)]

\* The head of a method that may raise inside its with-block: the lock is
\* taken, _readData gives S; when fails the method is about to raise
\* KeyError, otherwise _writeData(data) follows.
Checked(p, n, op, x, S, fails, data) ==
  /\ lock' = [lock EXCEPT ![n] = p]
  /\ pc' = [pc EXCEPT ![p] =
       Entered(p, n, op, x, S,
               IF fails THEN "raise" ELSE WriteStage(data, handle[p][n].size),
               data)]
  /\ obs' = obs

\* remove() that ignores a missing element, as discard does.
RemoveSilent(p, n, x) ==
  /\ CanStart(p)
  /\ handle[p][n].st = "open"
  /\ lock[n] = NoProc
  /\ ops' = Started(p)
  /\ LET S == ReadBuf(segs[handle[p][n].shm].buf)
     IN Checked(p, n, "remove", x, S, FALSE, S \ {x})
  /\ UNCHANGED <<registry, segs, handle, committed>>

\* remove, lines 81-86: set.remove raises KeyError for a missing element.
RemoveStart(p, n, x) ==
  /\ CanStart(p)
  /\ handle[p][n].st = "open"
  /\ lock[n] = NoProc
  /\ ops' = Started(p)
  /\ LET S == ReadBuf(segs[handle[p][n].shm].buf)
     IN Checked(p, n, "remove", x, S, x \notin S, S \ {x})
  /\ UNCHANGED <<registry, segs, handle, committed>>

\* pop() that returns an element and stores the set it read.
PopKeeps(p, n) ==
  /\ CanStart(p)
  /\ handle[p][n].st = "open"
  /\ lock[n] = NoProc
  /\ ops' = Started(p)
  /\ LET S == ReadBuf(segs[handle[p][n].shm].buf)
     IN IF S = {}
          THEN Checked(p, n, "pop", 0, S, TRUE, S)
          ELSE \E e \in S : Checked(p, n, "pop", e, S, FALSE, S)
  /\ UNCHANGED <<registry, segs, handle, committed>>

\* pop, lines 95-103: KeyError on the empty set, otherwise set.pop() takes
\* an arbitrary element, which is returned after the store.
PopStart(p, n) ==
  /\ CanStart(p)
  /\ handle[p][n].st = "open"
  /\ lock[n] = NoProc
  /\ ops' = Started(p)
  /\ LET S == ReadBuf(segs[handle[p][n].shm].buf)
     IN IF S = {}
          THEN Checked(p, n, "pop", 0, S, TRUE, S)
          ELSE \E e \in S : Checked(p, n, "pop", e, S, FALSE, S \ {e})
  /\ UNCHANGED <<registry, segs, handle, committed>>

\* The KeyError leaves the with-block: the lock is released, nothing stored.
RaiseExit(p) ==
  /\ pc[p].stage = "raise"
  /\ lock' = Released(p)
  /\ pc' = [pc EXCEPT ![p] = IdlePc]
  /\ obs' = Raised(p, pc[p].op, pc[p].n, pc[p].arg, "KeyError")
  /\ UNCHANGED <<registry, segs, handle, ops, committed>>

\* ----------------------------------------------- read-only operations ----
\* What _readData returns through handle h, as the outcome of operation op.
\* An object that is not a set has no copy (AttributeError); __repr__ formats
\* whatever object it got.
ReadOutcome(p, op, n) ==
  LET h == handle[p][n]
  IN IF h.st = "closed"
       THEN Raised(p, op, n, 0, "TypeError")
     ELSE IF Foreign(segs[h.shm].buf)
       THEN IF op = "repr"
              THEN Outcome(p, op, n, 0, "nonset", {}, FALSE, Mark(h.shm),
                           Torn(h.shm))
              ELSE Raised(p, op, n, 0, "AttributeError")
       ELSE Outcome(p, op, n, 0, "ok", ReadBuf(segs[h.shm].buf), FALSE,
                    Mark(h.shm), Torn(h.shm))

\* copy, lines 153-156: one critical section that only reads.
Copy(p, n) ==
  /\ CanStart(p)
  /\ handle[p][n].st # "none"
  /\ lock[n] = NoProc
  /\ ops' = Started(p)
  /\ obs' = ReadOutcome(p, "copy", n)
  /\ UNCHANGED <<registry, segs, handle, lock, pc, committed>>

\* __repr__, lines 245-246: _readData with no lock taken.
Repr(p, n) ==
  /\ CanStart(p)
  /\ handle[p][n].st # "none"
  /\ ops' = Started(p)
  /\ obs' = ReadOutcome(p, "repr", n)
  /\ UNCHANGED <<registry, segs, handle, lock, pc, committed>>

\* __iter__, lines 149-151: under the lock, iter() of the set _readData
\* returned; the lock is released when __iter__ returns and the caller then
\* draws the elements from that process-local set.  data is the set read,
\* out the elements yielded so far.
IterStart(p, n) ==
  /\ CanStart(p)
  /\ handle[p][n].st = "open"
  /\ lock[n] = NoProc
  /\ ops' = Started(p)
  /\ pc' = [pc EXCEPT ![p] =
       Entered(p, n, "iter", 0, {}, "iterating",
               ReadBuf(segs[handle[p][n].shm].buf))]
  /\ UNCHANGED <<registry, segs, handle, lock, obs, committed>>

\* An iterator that reads the segment again at every step.
IterYieldLive(p) ==
  /\ pc[p].stage = "iterating"
  /\ \E x \in ReadBuf(segs[handle[p][pc[p].n].shm].buf) \ pc[p].out :
       pc' = [pc EXCEPT ![p].out = @ \cup {x}]
  /\ UNCHANGED <<registry, segs, handle, lock, ops, obs, committed>>

\* next(iterator): one more element of the local set, in arbitrary order.
IterYield(p) ==
  /\ pc[p].stage = "iterating"
  /\ \E x \in pc[p].data \ pc[p].out :
       pc' = [pc EXCEPT ![p].out = @ \cup {x}]
  /\ UNCHANGED <<registry, segs, handle, lock, ops, obs, committed>>

\* StopIteration: the local set is exhausted; val is what was yielded.
IterEnd(p) ==
  /\ pc[p].stage = "iterating"
  /\ pc[p].out = pc[p].data
  /\ obs' = Outcome(p, "iter", pc[p].n, 0, "ok", pc[p].out, FALSE,
                    Mark(handle[p][pc[p].n].shm), FALSE)
  /\ pc' = [pc EXCEPT ![p] = IdlePc]
  /\ UNCHANGED <<registry, segs, handle, lock, ops, committed>>

\* ---------------------------------------------------------- teardown ----
\* unlink() that only reports success and leaves the name registered.
UnlinkKeepsName(p, n) ==
  /\ CanStart(p)
  /\ handle[p][n].st # "none"
  /\ ops' = Started(p)
  /\ obs' = Outcome(p, "unlink", n, 0, "ok", {}, FALSE, NoMark, FALSE)
  /\ UNCHANGED <<registry, segs, handle, lock, pc, committed>>

\* unlink, lines 253-256: removes the name, whatever segment holds it.
Unlink(p, n) ==
  /\ CanStart(p)
  /\ handle[p][n].st # "none"
  /\ ops' = Started(p)
  /\ IF registry[n] # NoSeg
       THEN LET R == [registry EXCEPT ![n] = NoSeg]
                S == [segs EXCEPT ![registry[n]].role = "unlinked",
                                  ![registry[n]].by = p]
            IN /\ registry' = R
               /\ segs' = Collect(S, R, handle)
               /\ obs' = Outcome(p, "unlink", n, 0, "ok", {}, FALSE, NoMark,
                                 FALSE)
       ELSE /\ obs' = Raised(p, "unlink", n, 0, "FileNotFoundError")
            /\ UNCHANGED <<registry, segs>>
  /\ UNCHANGED <<handle, lock, pc, committed>>

\* close() that also removes the name from the namespace.
CloseUnlinks(p, n) ==
  /\ CanStart(p)
  /\ handle[p][n].st = "open"
  /\ ops' = Started(p)
  /\ LET H == [handle EXCEPT ![p][n] = Closed(handle[p][n])]
         R == [registry EXCEPT ![n] = NoSeg]
     IN /\ handle' = H
        /\ registry' = R
        /\ segs' = Collect(segs, R, H)
  /\ obs' = Outcome(p, "close", n, 0, "ok", {}, FALSE, NoMark, FALSE)
  /\ UNCHANGED <<lock, pc, committed>>

\* close, lines 248-251: drops this process's mapping.
Close(p, n) ==
  /\ CanStart(p)
  /\ handle[p][n].st = "open"
  /\ ops' = Started(p)
  /\ LET H == [handle EXCEPT ![p][n] = Closed(handle[p][n])]
     IN /\ handle' = H
        /\ segs' = Collect(segs, registry, H)
  /\ obs' = Outcome(p, "close", n, 0, "ok", {}, FALSE, NoMark, FALSE)
  /\ UNCHANGED <<registry, lock, pc, committed>>

\* -------------------------------------------- comparisons of handles ----
\* The relation a comparison method computes from the two snapshots.
Relation(op, a, b) ==
  IF op = "eq" THEN a = b
  ELSE IF op = "isSubset" THEN a \subseteq b
  ELSE b \subseteq a

CmpOps == {"eq", "isSubset", "isSuperset"}

\* __eq__ lines 205-206, isSubset 166-167, isSuperset 172-173 with another
\* RememorySet as right-hand operand: take self's lock, read self.
CmpStart(p, n, m, op) ==
  /\ CanStart(p)
  /\ n # m
  /\ handle[p][n].st # "none"
  /\ handle[p][m].st # "none"
  /\ lock[n] = NoProc
  /\ ops' = Started(p)
  /\ IF handle[p][n].st = "closed"
       THEN /\ obs' = Raised(p, op, n, 0, "TypeError")
            /\ UNCHANGED <<lock, pc>>
       ELSE /\ lock' = [lock EXCEPT ![n] = p]
            /\ pc' = [pc EXCEPT ![p] =
                 [stage |-> "cmp_other", op |-> op, n |-> n, m |-> m,
                  arg |-> 0, data |-> ReadBuf(segs[handle[p][n].shm].buf),
                  out |-> {}, after |-> After(p, n)]]
            /\ obs' = obs
  /\ UNCHANGED <<registry, segs, handle, committed>>

\* __eq__ lines 208-210: take other's lock, read other, compare.  For
\* isSubset/isSuperset (lines 168, 174) set.issubset(other) iterates other,
\* whose __iter__ (lines 149-151) takes other's lock and reads.  self's lock
\* is held throughout and released on return.
CmpOther(p) ==
  /\ pc[p].stage = "cmp_other"
  /\ lock[pc[p].m] = NoProc
  /\ LET n == pc[p].n
         m == pc[p].m
     IN obs' =
          IF handle[p][m].st = "closed"
            THEN Raised(p, pc[p].op, n, 0, "TypeError")
            ELSE Outcome(p, pc[p].op, n, 0, "ok", {},
                         Relation(pc[p].op, pc[p].data,
                                  ReadBuf(segs[handle[p][m].shm].buf)),
                         Mark(handle[p][n].shm), Torn(handle[p][m].shm))
  /\ lock' = [lock EXCEPT ![pc[p].n] = NoProc]
  /\ pc' = [pc EXCEPT ![p] = IdlePc]
  /\ UNCHANGED <<registry, segs, handle, ops, committed>>

\* ------------------------------------------ comparisons with a set ----
\* self <= other (isSubset, lines 166-168) or self >= other (isSuperset,
\* lines 172-174) for a plain set other.
Within(op, a, other) ==
  IF op = "lt" THEN a \subseteq other ELSE other \subseteq a

\* The proper-subset (proper-superset) relation itself.
Proper(op, a, other) == Within(op, a, other) /\ a # other

CmpProper == {"lt", "gt"}

\* __lt__ line 219, __gt__ line 227: "self <= other and self != other".  The
\* first operand is one critical section (__le__/__ge__, lines 215, 223);
\* when it is false the result is False at once.
LtStart(p, n, op, other) ==
  /\ CanStart(p)
  /\ handle[p][n].st = "open"
  /\ lock[n] = NoProc
  /\ ops' = Started(p)
  /\ LET first == ReadBuf(segs[handle[p][n].shm].buf)
     IN IF Within(op, first, other)
          THEN /\ pc' = [pc EXCEPT ![p] =
                    Entered(p, n, op, 0, other, "cmp_ne", first)]
               /\ obs' = obs
          ELSE /\ obs' = Outcome(p, op, n, 0, "ok", other, FALSE,
                                 Mark(handle[p][n].shm), FALSE)
               /\ pc' = pc
  /\ UNCHANGED <<registry, segs, handle, lock, committed>>

\* The second operand: self != other is not __eq__ (lines 202-211), another
\* critical section with its own read; val is the right-hand set.
LtNe(p) ==
  /\ pc[p].stage = "cmp_ne"
  /\ lock[pc[p].n] = NoProc
  /\ LET second == ReadBuf(segs[handle[p][pc[p].n].shm].buf)
     IN obs' = Outcome(p, pc[p].op, pc[p].n, 0, "ok", pc[p].out,
                       second # pc[p].out, Mark(handle[p][pc[p].n].shm), FALSE)
  /\ pc' = [pc EXCEPT ![p] = IdlePc]
  /\ UNCHANGED <<registry, segs, handle, lock, ops, committed>>

\* ------------------------------------------------------ specification ----
WriteSteps(p) ==
  \/ GrowUnlink(p)
  \/ GrowCreate(p)
  \/ WritePayload(p)
  \/ WritePad(p)

\* Every process, one name: constructor, mutation, reads, teardown.
Next ==
  \E p \in Procs :
    \/ Attach(p, "A")
    \/ Create(p)
    \/ WriteSteps(p)
    \/ \E x \in Elems : AddStart(p, "A", x)
    \/ \E x \in Elems : DiscardStart(p, "A", x)
    \/ Copy(p, "A")
    \/ Repr(p, "A")
    \/ Unlink(p, "A")
    \/ Close(p, "A")

Spec == Init /\ [][Next]_vars

\* Two names: constructors, add, and comparisons of one handle with another.
NextCmp ==
  \E p \in Procs :
    \/ \E n \in Names : Attach(p, n)
    \/ Create(p)
    \/ WriteSteps(p)
    \/ \E n \in Names, x \in Elems : AddStart(p, n, x)
    \/ \E n \in Names, m \in Names, op \in CmpOps : CmpStart(p, n, m, op)
    \/ CmpOther(p)

SpecCmp == Init /\ [][NextCmp]_vars

\* Two handles already attached to one segment holding the empty set, as the
\* constructors leave it (the creator's segment, or one of twice the size);
\* P1 adds 1 and P2 adds 2.
ElemOf(p) == IF p = "P1" THEN 1 ELSE 2

Constructed(size) ==
  [size |-> size, role |-> "live", by |-> NoProc,
   buf |-> PutPad(PutPayload(Zeros(size), Encode({})), Encode({}))]

InitAdd ==
  /\ registry = [n \in Names |-> IF n = "A" THEN 1 ELSE NoSeg]
  /\ \E size \in {InitialCapacity, 2 * InitialCapacity} :
       /\ segs = [i \in SegIds |-> IF i = 1 THEN Constructed(size) ELSE FreeSeg]
       /\ handle = [p \in Procs |-> [n \in Names |->
            IF n = "A" THEN Opened(1, size) ELSE NoHandle]]
  /\ lock = [n \in Names |-> NoProc]
  /\ pc = [p \in Procs |-> IdlePc]
  /\ ops = [p \in Procs |-> 1]
  /\ obs = NoOutcome
  /\ committed = [n \in Names |-> IF n = "A" THEN {{}} ELSE {}]

NextAdd ==
  \E p \in Procs :
    \/ AddStart(p, "A", ElemOf(p))
    \/ WriteSteps(p)

SpecAdd == InitAdd /\ [][NextAdd]_vars

\* A segment of the given size after a store of S: payload, then zeros.
Stored(S, size) ==
  [size |-> size, role |-> "live", by |-> NoProc,
   buf |-> PutPad(PutPayload(Zeros(size), Encode(S)), Encode(S))]

\* Two handles attached to one segment of twice the initial capacity (what
\* the first growth leaves), holding any set of elements; every set fits,
\* so no operation grows the segment.
InitSet ==
  /\ registry = [n \in Names |-> IF n = "A" THEN 1 ELSE NoSeg]
  /\ \E S \in SUBSET Elems :
       /\ segs = [i \in SegIds |->
            IF i = 1 THEN Stored(S, 2 * InitialCapacity) ELSE FreeSeg]
       /\ committed = [n \in Names |-> IF n = "A" THEN {S} ELSE {}]
  /\ handle = [p \in Procs |-> [n \in Names |->
       IF n = "A" THEN Opened(1, 2 * InitialCapacity) ELSE NoHandle]]
  /\ lock = [n \in Names |-> NoProc]
  /\ pc = [p \in Procs |-> IdlePc]
  /\ ops = [p \in Procs |-> 1]
  /\ obs = NoOutcome

NextSet ==
  \E p \in Procs :
    \/ \E x \in Elems : AddStart(p, "A", x)
    \/ \E x \in Elems : RemoveStart(p, "A", x)
    \/ PopStart(p, "A")
    \/ RaiseExit(p)
    \/ WritePayload(p)
    \/ WritePad(p)

SpecSet == InitSet /\ [][NextSet]_vars

\* Two constructed handles: P1 iterates while P2 adds and discards.
NextIter ==
  \/ IterStart("P1", "A")
  \/ IterYield("P1")
  \/ IterEnd("P1")
  \/ \E x \in Elems : AddStart("P2", "A", x)
  \/ \E x \in Elems : DiscardStart("P2", "A", x)
  \/ WritePayload("P2")
  \/ WritePad("P2")

SpecIter == InitSet /\ [][NextIter]_vars

\* Two constructed handles: A < other and A > other against a plain set,
\* while the other process adds and removes.
NextLt ==
  \E p \in Procs :
    \/ \E op \in CmpProper, other \in SUBSET Elems : LtStart(p, "A", op, other)
    \/ LtNe(p)
    \/ \E x \in Elems : AddStart(p, "A", x)
    \/ \E x \in Elems : RemoveStart(p, "A", x)
    \/ RaiseExit(p)
    \/ WritePayload(p)
    \/ WritePad(p)

SpecLt == InitSet /\ [][NextLt]_vars

\* Constructors called with a size that fits every set, and add: no store
\* grows the segment.
NextInit ==
  \E p \in Procs :
    \/ Construct(p, "A", 2 * InitialCapacity)
    \/ Create(p)
    \/ \E x \in Elems : AddStart(p, "A", x)
    \/ WritePayload(p)
    \/ WritePad(p)

SpecInit == Init /\ [][NextInit]_vars

\* Every exit of a with-block: constructors, add with its growth, remove and
\* pop with their KeyError, and unlink, which makes a later growth fail.
NextExit ==
  \E p \in Procs :
    \/ Attach(p, "A")
    \/ Create(p)
    \/ WriteSteps(p)
    \/ \E x \in Elems : AddStart(p, "A", x)
    \/ \E x \in Elems : RemoveStart(p, "A", x)
    \/ PopStart(p, "A")
    \/ RaiseExit(p)
    \/ Unlink(p, "A")

SpecExit == Init /\ [][NextExit]_vars

\* Handles are constructed, written through and closed; the name is never
\* unlinked, so every close() acts on the segment the name designates.
NextClose ==
  \E p \in Procs :
    \/ Attach(p, "A")
    \/ Create(p)
    \/ WriteSteps(p)
    \/ \E x \in Elems : AddStart(p, "A", x)
    \/ Close(p, "A")

SpecClose == Init /\ [][NextClose]_vars

\* The bytes a segment can hold.
Bytes == {PROTO, EMPTY_SET, MARK, ADDITEMS, STOP, PAD, NONE} \cup Elems

\* Two handles attached to a segment whose bytes are a stored set with one
\* byte overwritten by any byte: a corrupt or foreign payload.
InitDecode ==
  /\ registry = [n \in Names |-> IF n = "A" THEN 1 ELSE NoSeg]
  /\ \E S \in SUBSET Elems, k \in 1..(2 * InitialCapacity), b \in Bytes :
       segs = [i \in SegIds |->
         IF i = 1
           THEN [Stored(S, 2 * InitialCapacity) EXCEPT !.buf[k] = b]
           ELSE FreeSeg]
  /\ handle = [p \in Procs |-> [n \in Names |->
       IF n = "A" THEN Opened(1, 2 * InitialCapacity) ELSE NoHandle]]
  /\ lock = [n \in Names |-> NoProc]
  /\ pc = [p \in Procs |-> IdlePc]
  /\ ops = [p \in Procs |-> 1]
  /\ obs = NoOutcome
  /\ committed = [n \in Names |-> {}]

NextDecode ==
  \E p \in Procs :
    \/ Copy(p, "A")
    \/ \E x \in Elems : AddStart(p, "A", x)
    \/ WritePayload(p)
    \/ WritePad(p)

SpecDecode == InitDecode /\ [][NextDecode]_vars

\* ------------------------------------------------------------ claims ----
AllIdle == \A p \in Procs : Idle(p)
Quiescent == AllIdle /\ \A n \in Names : lock[n] = NoProc
Content(n) == ReadBuf(segs[registry[n]].buf)
WritingStages == {"grow_unlink", "grow_create", "payload", "pad"}

\* C1 (SpecAdd): two handles on one empty set, add(1) by P1 and add(2) by
\* P2: once both have returned, the set registered under the name is {1, 2}.
AddDone(p) == Idle(p) /\ ops[p] > 1

C1_BothAddsKept ==
  (\A p \in Procs : AddDone(p)) =>
    /\ registry["A"] # NoSeg
    /\ Content("A") = {ElemOf(p) : p \in Procs}

\* C2: with no operation in progress, a read through every attached handle
\* of a name returns what the segment registered under that name holds; no
\* handle is left on a segment that a growth has superseded.
C2_ViewsOfOneStorage ==
  Quiescent =>
    \A p \in Procs :
      LET h == handle[p]["A"]
      IN (h.st = "open" /\ registry["A"] # NoSeg
            /\ segs[h.shm].role # "unlinked") =>
           /\ h.shm = registry["A"]
           /\ ReadBuf(segs[h.shm].buf) = Content("A")

\* C3: a mutation whose payload exceeds the capacity replaces the segment
\* registered under the name by one that holds every element that segment
\* held, plus the new one.
C3_GrowthKeepsElements ==
  \A p \in Procs :
    (pc[p].stage = "grow_unlink" /\ pc[p].op = "add"
       /\ registry[pc[p].n] # NoSeg) =>
      Content(pc[p].n) \cup {pc[p].arg} \subseteq pc[p].data

\* C4: every construction completes; none ends in FileExistsError.
C4_ConstructionCompletes ==
  ~(obs.op = "init" /\ obs.res = "FileExistsError")

\* C5: a process that is inside a store (re-creating the segment, writing
\* the payload or the padding) holds the mutex of that name.
C5_WritesHoldMutex ==
  \A p \in Procs : pc[p].stage \in WritingStages => lock[pc[p].n] = p

\* C6: every set a read returns is the empty set or a set some store has
\* fully written (payload and padding).
C6_NoPartialObserved ==
  (obs.op \in {"copy", "repr"} /\ obs.res = "ok") =>
    obs.val \in committed[obs.n] \cup {{}}

\* C7: a read through a handle whose segment another process has unlinked
\* does not return a value.
C7_StaleHandleFails ==
  (obs.op \in {"copy", "repr"} /\ obs.seen.role = "unlinked"
     /\ obs.seen.by # obs.p) =>
    obs.res # "ok"

\* C8: a construction that starts right after a successful unlink() of the
\* name (no operation completed or in progress in between) creates a new
\* segment, and the new handle reads the empty set.
C8_FreshStartAfterUnlink ==
  (obs.op = "init" /\ obs.res = "ok" /\ obs.prev = "unlink") =>
    /\ obs.arg = 1
    /\ obs.val = {}

\* Reached: such a construction while the unlinked segment, still mapped by
\* the handle that unlinked it, holds a non-empty set.
C8_Witness ==
  /\ obs.op = "init" /\ obs.res = "ok" /\ obs.prev = "unlink"
  /\ obs.arg = 1
  /\ handle[obs.p][obs.n].st = "open"
  /\ registry[obs.n] = handle[obs.p][obs.n].shm
  /\ Content(obs.n) = {}
  /\ \E i \in SegIds :
       segs[i].role = "unlinked" /\ ReadBuf(segs[i].buf) # {}

\* C9 (SpecCmp): no two processes each hold one mutex and wait for the
\* other's.
C9_NoCircularWait ==
  ~ \E p \in Procs, q \in Procs :
      /\ p # q
      /\ pc[p].stage = "cmp_other" /\ pc[q].stage = "cmp_other"
      /\ lock[pc[p].m] = q /\ lock[pc[q].m] = p

\* C10 (SpecCmp): a comparison of two handles that has read a snapshot
\* holds both mutexes.
C10_BothMutexesBeforeRead ==
  \A p \in Procs :
    pc[p].stage = "cmp_other" =>
      (lock[pc[p].n] = p /\ lock[pc[p].m] = p)

\* C11 (SpecClose): a close() step leaves the namespace, the lock, every other
\* process's handles and every segment that is still registered or mapped
\* exactly as they were.
C11_CloseIsLocal ==
  [][\A p \in Procs :
       (obs'.op = "close" /\ obs'.p = p /\ ops'[p] = ops[p] + 1) =>
         /\ registry' = registry
         /\ lock' = lock
         /\ \A q \in Procs \ {p} : handle'[q] = handle[q]
         /\ \A i \in SegIds :
              Referenced(i, registry, handle') => segs'[i] = segs[i]]_vars

\* Reached: a close() while the name is registered with a non-empty set and
\* another process has the segment mapped.
C11_Witness ==
  /\ obs.op = "close" /\ obs.res = "ok"
  /\ registry[obs.n] # NoSeg
  /\ Content(obs.n) # {}
  /\ handle[obs.p][obs.n].st = "closed"
  /\ \E q \in Procs \ {obs.p} :
       handle[q][obs.n].st = "open" /\ handle[q][obs.n].shm = registry[obs.n]

\* The set process p's handle of name n reads now, and after the step.
View(p, n) == ReadBuf(segs[handle[p][n].shm].buf)
ViewAfter(p, n) == ReadBuf(segs'[handle'[p][n].shm].buf)

\* C12 (SpecSet): remove(x) is about to raise exactly when the set it read
\* lacks x, pop() exactly when the set it read is empty; the raise surfaces
\* as KeyError, and from the read to the raise no byte of any segment and no
\* name changes.
C12_FailedCallChangesNothing ==
  [][\A p \in Procs :
       /\ (pc[p].stage = "idle" /\ pc'[p].op = "remove") =>
            ((pc'[p].stage = "raise") <=> (pc'[p].arg \notin View(p, pc'[p].n)))
       /\ (pc[p].stage = "idle" /\ pc'[p].op = "pop") =>
            ((pc'[p].stage = "raise") <=> (View(p, pc'[p].n) = {}))
       /\ (pc'[p].stage = "raise" \/ pc[p].stage = "raise") =>
            (segs' = segs /\ registry' = registry)
       /\ (pc[p].stage = "raise" /\ pc'[p].stage = "idle") =>
            (obs'.res = "KeyError" /\ obs'.p = p /\ obs'.op = pc[p].op)]_vars

\* Reached: a remove of a missing element from a non-empty set has raised
\* and the set is as it was.
C12_Witness ==
  /\ obs.op = "remove" /\ obs.res = "KeyError"
  /\ AllIdle
  /\ Content(obs.n) # {}
  /\ obs.arg \notin Content(obs.n)

\* C13 (SpecSet): a pop() that finds the set S it read non-empty takes an
\* element e of S; when it returns e, its handle reads S minus {e}, one
\* element fewer and without e.
C13_PopRemovesOne ==
  [][\A p \in Procs :
       /\ (pc[p].stage = "idle" /\ pc'[p].op = "pop"
             /\ pc'[p].stage # "raise") =>
            /\ pc'[p].out = View(p, pc'[p].n)
            /\ pc'[p].arg \in pc'[p].out
       /\ (pc[p].op = "pop" /\ pc[p].stage = "pad" /\ pc'[p].stage = "idle") =>
            LET S == pc[p].out
                e == pc[p].arg
                T == ViewAfter(p, pc[p].n)
            IN /\ obs'.op = "pop" /\ obs'.res = "ok" /\ obs'.arg = e
               /\ T = S \ {e}
               /\ Cardinality(T) = Cardinality(S) - 1
               /\ e \notin T]_vars

\* Reached: a pop has returned an element that is not the smallest of the
\* set, and the rest of the set is still there.
C13_Witness ==
  /\ obs.op = "pop" /\ obs.res = "ok"
  /\ AllIdle
  /\ obs.arg \notin Content(obs.n)
  /\ \E y \in Content(obs.n) : y < obs.arg

\* C14 (SpecIter): an iteration yields the set its handle read when __iter__
\* held the lock: every element yielded belongs to that set, the set does
\* not change while the iteration is in flight, and the iteration ends
\* having yielded exactly that set, whatever other processes store meanwhile.
C14_IterationIsSnapshot ==
  [][\A p \in Procs :
       /\ (pc[p].stage = "idle" /\ pc'[p].stage = "iterating") =>
            (pc'[p].data = View(p, pc'[p].n) /\ pc'[p].out = {})
       /\ (pc[p].stage = "iterating" /\ pc'[p].stage = "iterating") =>
            /\ pc'[p].data = pc[p].data
            /\ pc[p].out \subseteq pc'[p].out
            /\ pc'[p].out \subseteq pc[p].data
       /\ (pc[p].stage = "iterating" /\ pc'[p].stage = "idle") =>
            (obs'.op = "iter" /\ obs'.p = p /\ obs'.val = pc[p].data)]_vars

\* Reached: an iteration in flight, part of its set yielded, while its
\* handle already reads a different set.
C14_Witness ==
  \E p \in Procs :
    /\ pc[p].stage = "iterating"
    /\ pc[p].out # {}
    /\ pc[p].out # pc[p].data
    /\ View(p, pc[p].n) # pc[p].data

\* The bytes, stripped of trailing zeros, are empty or decode to a set.
DecodesToSet(buf) ==
  LET raw == RStrip(buf)
  IN  raw = <<>> \/ (Loads(raw).ok /\ Loads(raw).set)

\* C15 (SpecDecode): an operation that finds bytes that do not decode to a
\* set goes on with the empty set: copy() returns set(), add(x) is about to
\* store {x}; neither raises.
C15_InvalidReadsAsEmpty ==
  [][\A p \in Procs :
       (ops'[p] = ops[p] + 1 /\ ~DecodesToSet(segs[handle[p]["A"].shm].buf)) =>
         IF pc'[p].stage = "idle"
           THEN obs'.p = p /\ obs'.res = "ok" /\ obs'.val = {}
           ELSE pc'[p].data = {pc'[p].arg}]_vars

\* The same for the bytes on which pickle.loads raises.
C15_DecodeFailureReadsAsEmpty ==
  [][\A p \in Procs :
       (ops'[p] = ops[p] + 1
          /\ ~DecodesToSet(segs[handle[p]["A"].shm].buf)
          /\ ~Foreign(segs[handle[p]["A"].shm].buf)) =>
         IF pc'[p].stage = "idle"
           THEN obs'.p = p /\ obs'.res = "ok" /\ obs'.val = {}
           ELSE pc'[p].data = {pc'[p].arg}]_vars

\* C16 (SpecExit): a process with no operation in progress holds no lock,
\* whether its last operation returned or raised.
C16_ReleasedOnEveryExit ==
  \A p \in Procs : Idle(p) => \A n \in Names : lock[n] # p

\* Reached: an add whose growth failed has raised to its caller, and the
\* lock of the name is free.
C16_Witness ==
  /\ obs.op = "add"
  /\ obs.res \in {"FileNotFoundError", "FileExistsError"}
  /\ Idle(obs.p)
  /\ lock[obs.n] = NoProc

\* C17 (SpecSet): when a store of S that fits the capacity completes, the
\* segment holds the encoding of S followed by zeros only, and a read of it
\* returns S.
C17_StoreReadRoundTrip ==
  [][\A p \in Procs :
       (pc[p].stage = "pad" /\ pc'[p].stage = "idle") =>
         LET S == pc[p].data
             enc == Encode(S)
             buf == segs'[handle[p][pc[p].n].shm].buf
         IN /\ Len(enc) <= Len(buf)
            /\ SubSeq(buf, 1, Len(enc)) = enc
            /\ \A k \in (Len(enc) + 1)..Len(buf) : buf[k] = PAD
            /\ ReadBuf(buf) = S]_vars

\* Reached: a remove or pop has stored the empty set over a longer encoding:
\* the segment is the empty set's encoding and zeros.
C17_Witness ==
  /\ obs.op \in {"remove", "pop"} /\ obs.res = "ok"
  /\ AllIdle
  /\ obs.arg \in Elems
  /\ segs[registry[obs.n]].buf = Stored({}, 2 * InitialCapacity).buf

\* The sets a name has held or is being given: every set fully stored so
\* far and every set a store in progress is writing.
EverHeld(n) ==
  committed[n] \cup
    {pc[q].data : q \in {r \in Procs : pc[r].stage \in WritingStages
                                        /\ pc[r].n = n}}

\* C18 (SpecLt): the boolean A < other (A > other) returns is the
\* proper-subset (proper-superset) relation between other and a set the name
\* held at some instant.
C18_ProperAtOneInstant ==
  (obs.op \in CmpProper /\ obs.res = "ok") =>
    \E c \in EverHeld(obs.n) : obs.truth = Proper(obs.op, c, obs.val)

\* C19: a mutation that grows its segment does not fail at the re-creation:
\* no add or discard ends in FileExistsError.
C19_GrowthSurvivesOpen ==
  ~(obs.op \in {"add", "discard"} /\ obs.res = "FileExistsError")

\* C20 (SpecInit): with constructors and add only, once every operation has
\* returned, every element of every set an add has stored is in the set
\* registered under the name.
C20_InitKeepsAdds ==
  (AllIdle /\ registry["A"] # NoSeg) =>
    \A S \in committed["A"] : S \subseteq Content("A")

=============================================================================
